---------------------------- MODULE Spec2Model ----------------------------
(***************************************************************************)
(* A model of spotweb: the Player capture bridge of spotutil.py (a backend *)
(* thread pushing packets through callbacks into a queue, a generator      *)
(* pulling them out) and the /play request handling of spotweb.py          *)
(* (admission, receipts, the raw PCM stream and the flac pipeline).        *)
(*                                                                         *)
(* Spec      : one Player, its backend callback thread and its consumer.   *)
(* SpecWeb   : two /play requests on their threads, at most one of them    *)
(*             asking for flac.                                            *)
(* SpecOne   : one /play request, of any format; FairOne adds that what    *)
(*             can run does run.                                           *)
(* SpecLedger: one /play request made while the ledger holds receipts of   *)
(*             earlier requests.                                           *)
(***************************************************************************)
EXTENDS Integers, Sequences, FiniteSets, TLC

(***************************************************************************)
(* Bounds of the model.                                                    *)
(***************************************************************************)
\* Number of music packets the backend delivers for one track, at most.
MaxPackets == 3
\* Number of on_music calls answered 0 that are counted, at most.
MaxRejects == 2
\* Player(uri, maxqsize): the queue depth above which on_music refuses;
\* the program's default is 10, the model runs a Player built with less.
maxqsize == 1
\* Length in bytes of the model's silence block (the program's is 88200).
BlankBytes == 2
\* Largest notify period set_notify is called with.
MaxPeriod == 2
\* Number of error events the session delivers between the registration of
\* the callbacks and _playing = True (lines 114-115), at most.
MaxEarly == 3

\* Number of chunks Player.get_data yields for one /play request, at most.
MaxChunks == 4
\* Capacity, in bytes, of each of the two pipes of the encoder process.
PipeCap == 1
\* flac_encode(input_data, rcpt, blksize): the size of its reads; the
\* program's default is 8192.
blksize == 1

(***************************************************************************)
(* spotutil.py: constants of class Player.                                 *)
(***************************************************************************)
MUSIC == "music"
END_OF_TRACK == "end_of_track"
ERROR == "error"
BLANK_500MS == [i \in 1..BlankBytes |-> 0]
min_cache_size == 1

NoPacket == [frames |-> <<>>, num_frames |-> 0]

\* The payloads the backend delivers: the silence block itself, a shorter
\* run of zero bytes (silent, yet not byte-identical to the block) and a
\* block of non-zero samples.  One byte stands for one frame.
Payloads == {BLANK_500MS, <<0>>, [i \in 1..BlankBytes |-> 1]}
Packets == {[frames |-> f, num_frames |-> Len(f)] : f \in Payloads}

\* repr(error_type) of the error types the session events carry.
ErrorTypes == {"<ErrorType.OTHER_PERMANENT: 10>"}
TimedOut == "Timed out waiting for data"
PlayTokenLost == "Play token lost"

VARIABLES
    \* ---- Player (spotutil.py) ----
    postbox,        \* self._postbox: the queue of entries
    playing,        \* self._playing
    registered,     \* the callbacks are registered with the session
    unloads,        \* times stop() paused and unloaded the backend player
    notify_period,  \* self._notify_period (0: no callback registered)
    frame_count,    \* self._frame_count
    next_notify,    \* self._next_notify
    notified,       \* the arguments the notify callback was called with
    cache,          \* get_data_ex: the deque of packets held back
    gpc,            \* get_data_ex: where the generator stands
    emitted,        \* the chunks get_data_ex has yielded
    perr,           \* the message of the PlayError get_data_ex raised
    cleaned,        \* the generator's owner has run its cleanup
    opc,            \* where the owner stands in its call of stop()
    \* ---- the backend's callback thread ----
    bpc,            \* which callback it is in, and where
    offer,          \* the packet it is delivering (NoPacket: none)
    ret,            \* what the last on_music call returned (-1: none yet)
    accepted,       \* the packets on_music has consumed, in order
    rejected,       \* the number of on_music calls answered 0
    berr,           \* the error text a callback is about to post
    posted,         \* the cmd of every entry ever put on the queue, in order
    \* ---- spotweb.py ----
    status,         \* the global status Bunch
    receipts,       \* the global OrderedDict, oldest first: <<key, receipt>>
    now,            \* time.time()
    may,            \* the formats each request thread may ask for
    req,            \* per request: where play_track stands, what it was
                    \* asked, what the HTTP client has got
    rcpt,           \* per request: the receipt make_receipt gave it
    pl,             \* per request: its Player and its get_track_pcm generator
    fl              \* per request: the encoder process, its pipes, the feeder

pvars == <<postbox, playing, registered, unloads, notify_period, frame_count,
           next_notify, notified, cache, gpc, emitted, perr, cleaned, opc>>
bvars == <<bpc, offer, ret, accepted, rejected, berr, posted>>
wvars == <<status, receipts, now, may, req, rcpt, pl, fl>>
vars == <<pvars, bvars, wvars>>

(***************************************************************************)
(* Helpers.                                                                *)
(***************************************************************************)
RECURSIVE Flatten(_)
Flatten(ss) == IF ss = <<>> THEN <<>> ELSE Head(ss) \o Flatten(Tail(ss))

Front(s) == SubSeq(s, 1, Len(s) - 1)
Last(s) == s[Len(s)]
IsPrefix(s, t) == Len(s) <= Len(t) /\ SubSeq(t, 1, Len(s)) = s
FramesOf(ps) == [i \in 1..Len(ps) |-> ps[i].frames]

\* The entries put on the queue (a Bunch each).
MusicEntry(p) ==
    [cmd |-> MUSIC, frames |-> p.frames, num_frames |-> p.num_frames, error |-> ""]
EndEntry == [cmd |-> END_OF_TRACK, frames |-> <<>>, num_frames |-> 0, error |-> ""]
ErrorEntry(e) == [cmd |-> ERROR, frames |-> <<>>, num_frames |-> 0, error |-> e]

(***************************************************************************)
(* Player.__init__, set_notify                                              *)
(***************************************************************************)
PlayerInit ==
    /\ postbox = <<>>
    /\ playing = FALSE
    /\ registered = FALSE
    /\ unloads = 0
    /\ notify_period \in 0..MaxPeriod
    /\ frame_count = 0
    /\ next_notify = 0
    /\ notified = <<>>
    /\ cache = <<>>
    /\ gpc = "new"
    /\ emitted = <<>>
    /\ perr = ""
    /\ cleaned = FALSE
    /\ opc = "idle"
    /\ bpc = "idle"
    /\ offer = NoPacket
    /\ ret = -1
    /\ accepted = <<>>
    /\ rejected = 0
    /\ berr = ""
    /\ posted = <<>>

(***************************************************************************)
(* Player.stop, in two steps of the thread that calls it: the test of      *)
(* _playing, then the rest.                                                *)
(***************************************************************************)
\* Line 120: stop() returns at once unless the Player is playing.
stop_returns == ~playing

\* Lines 121-124: pause, unload, deregister, _playing = False.
stop ==
    /\ unloads' = unloads + 1
    /\ registered' = FALSE
    /\ playing' = FALSE

(***************************************************************************)
(* Player.on_music, in two steps of the backend thread: the test of the    *)
(* queue's size, then the put.                                             *)
(***************************************************************************)
QueueFullOffByOne(q) == Len(q) >= maxqsize

\* Line 131: the queue has grown beyond maxqsize.
QueueFull(q) == Len(q) > maxqsize

on_music_check ==
    /\ bpc = "idle"
    /\ registered
    /\ playing
    /\ \E p \in Packets :
         /\ IF offer # NoPacket THEN p = offer
            ELSE Len(accepted) < MaxPackets
         /\ offer' = p
    /\ IF QueueFull(postbox)
       THEN /\ rejected < MaxRejects
            /\ rejected' = rejected + 1
            /\ ret' = 0
            /\ bpc' = "idle"
       ELSE /\ bpc' = "on_music"
            /\ UNCHANGED <<rejected, ret>>
    /\ UNCHANGED wvars
    /\ UNCHANGED <<pvars, accepted, berr, posted>>

Put(q, e) == Append(q, e)

on_music_put ==
    /\ bpc = "on_music"
    /\ postbox' = Put(postbox, MusicEntry(offer))
    /\ ret' = offer.num_frames
    /\ accepted' = Append(accepted, offer)
    /\ posted' = Append(posted, MUSIC)
    /\ offer' = NoPacket
    /\ bpc' = "idle"
    /\ UNCHANGED wvars
    /\ UNCHANGED <<playing, registered, unloads, notify_period, frame_count,
                   next_notify, notified, cache, gpc, emitted, perr, cleaned,
                   opc, rejected, berr>>

(***************************************************************************)
(* on_end_of_track, on_error, on_play_token_lost: stop(), then the put.    *)
(* The backend delivers music and the end of the track only of a track it  *)
(* plays (lines 116-117), and ends the track only once it has delivered    *)
(* all its music, and takes the play token only from a session that       *)
(* plays; the session's error events (a connection error) come at any      *)
(* time the callbacks are registered.                                      *)
(***************************************************************************)
on_end_of_track ==
    /\ bpc = "idle"
    /\ registered
    /\ playing
    /\ offer = NoPacket
    /\ bpc' = IF stop_returns THEN "end_put" ELSE "end_stop"
    /\ UNCHANGED wvars
    /\ UNCHANGED <<pvars, offer, ret, accepted, rejected, berr, posted>>

on_error ==
    /\ bpc = "idle"
    /\ registered
    /\ playing \/ Len(postbox) < MaxEarly
    /\ \E e \in ErrorTypes : berr' = e
    /\ bpc' = IF stop_returns THEN "error_put" ELSE "error_stop"
    /\ UNCHANGED wvars
    /\ UNCHANGED <<pvars, offer, ret, accepted, rejected, posted>>

on_play_token_lost ==
    /\ bpc = "idle"
    /\ registered
    /\ playing
    /\ berr' = PlayTokenLost
    /\ bpc' = IF stop_returns THEN "error_put" ELSE "error_stop"
    /\ UNCHANGED wvars
    /\ UNCHANGED <<pvars, offer, ret, accepted, rejected, posted>>

\* The callback's stop() goes on after its test: lines 121-124.
callback_stop ==
    /\ bpc \in {"end_stop", "error_stop"}
    /\ stop
    /\ bpc' = IF bpc = "end_stop" THEN "end_put" ELSE "error_put"
    /\ UNCHANGED wvars
    /\ UNCHANGED <<postbox, notify_period, frame_count, next_notify, notified,
                   cache, gpc, emitted, perr, cleaned, opc, offer, ret,
                   accepted, rejected, berr, posted>>

terminal_put ==
    /\ bpc \in {"end_put", "error_put"}
    /\ postbox' = Put(postbox, IF bpc = "end_put" THEN EndEntry ELSE ErrorEntry(berr))
    /\ posted' = Append(posted, IF bpc = "end_put" THEN END_OF_TRACK ELSE ERROR)
    /\ bpc' = "idle"
    /\ UNCHANGED wvars
    /\ UNCHANGED <<playing, registered, unloads, notify_period, frame_count,
                   next_notify, notified, cache, gpc, emitted, perr, cleaned,
                   opc, offer, ret, accepted, rejected, berr>>

(***************************************************************************)
(* Player._handle_packet: count the frames, call the notify callback for   *)
(* every threshold reached, hand the payload out.                          *)
(***************************************************************************)
NotifyOnce(fc, nn, calls) ==
    IF notify_period # 0 /\ fc >= nn
    THEN <<nn + notify_period, Append(calls, nn)>>
    ELSE <<nn, calls>>

\* Lines 188-193: while a callback is set and the count has reached the
\* next threshold, call it with the threshold and move the threshold on.
RECURSIVE NotifyLoop(_, _, _)
NotifyLoop(fc, nn, calls) ==
    IF notify_period # 0 /\ fc >= nn
    THEN NotifyLoop(fc, nn + notify_period, Append(calls, nn))
    ELSE <<nn, calls>>

handle_packet(packet) ==
    /\ frame_count' = frame_count + packet.num_frames
    /\ LET r == NotifyLoop(frame_count + packet.num_frames, next_notify, notified)
       IN  /\ next_notify' = r[1]
           /\ notified' = r[2]
    /\ emitted' = Append(emitted, packet.frames)

PopRight(c) == <<Last(c), Front(c)>>

\* cache.popleft(): the packet taken, and what stays.
PopLeft(c) == <<Head(c), Tail(c)>>

YieldNoLookahead(c) ==
    IF Len(c) > 0
    THEN /\ handle_packet(PopLeft(c)[1])
         /\ cache' = PopLeft(c)[2]
         /\ gpc' = "susp228"
    ELSE /\ cache' = c
         /\ gpc' = "get"
         /\ UNCHANGED <<frame_count, next_notify, notified, emitted>>

\* Lines 227-228: while the cache holds more than min_cache_size packets,
\* yield the oldest; else go back to the queue.
YieldLoop(c) ==
    IF Len(c) > min_cache_size
    THEN /\ handle_packet(PopLeft(c)[1])
         /\ cache' = PopLeft(c)[2]
         /\ gpc' = "susp228"
    ELSE /\ cache' = c
         /\ gpc' = "get"
         /\ UNCHANGED <<frame_count, next_notify, notified, emitted>>

NeverBlank(packet) == FALSE

\* Line 234: the packet is the padded silence, and is not yielded.
IsBlank(packet) == packet.frames = BLANK_500MS

RECURSIVE SkipBlank(_)
SkipBlank(c) ==
    IF c # <<>> /\ IsBlank(Head(c)) THEN SkipBlank(Tail(c)) ELSE c

\* Lines 232-238: drain the cache, yielding every packet but the silence.
Drain(c) ==
    IF SkipBlank(c) # <<>>
    THEN /\ handle_packet(PopLeft(SkipBlank(c))[1])
         /\ cache' = PopLeft(SkipBlank(c))[2]
         /\ gpc' = "susp238"
    ELSE /\ cache' = <<>>
         /\ gpc' = "done"
         /\ UNCHANGED <<frame_count, next_notify, notified, emitted>>

(***************************************************************************)
(* Player.get_data_ex, one action per stretch between two points where     *)
(* the generator waits: the queue's get, and each yield.                   *)
(***************************************************************************)
\* Lines 207-208, with line 114 of _start: the callbacks are registered.
get_data_start ==
    /\ gpc = "new"
    /\ registered' = TRUE
    /\ gpc' = "starting"
    /\ UNCHANGED wvars
    /\ UNCHANGED <<postbox, playing, unloads, notify_period, frame_count,
                   next_notify, notified, cache, emitted, perr, cleaned, opc,
                   bvars>>

\* Lines 115-117 of _start, then lines 209-212.
start_playing ==
    /\ gpc = "starting"
    /\ playing' = TRUE
    /\ frame_count' = 0
    /\ next_notify' = notify_period
    /\ cache' = <<>>
    /\ gpc' = "get"
    /\ UNCHANGED wvars
    /\ UNCHANGED <<postbox, registered, unloads, notify_period, notified,
                   emitted, perr, cleaned, opc, bvars>>

\* Lines 217-228: an entry is there.
get_packet ==
    /\ gpc = "get"
    /\ postbox # <<>>
    /\ postbox' = Tail(postbox)
    /\ LET packet == Head(postbox) IN
         CASE packet.cmd = ERROR ->
                /\ perr' = packet.error
                /\ gpc' = "failed"
                /\ UNCHANGED <<cache, frame_count, next_notify, notified, emitted>>
           [] packet.cmd = END_OF_TRACK ->
                /\ Drain(cache)
                /\ UNCHANGED perr
           [] packet.cmd = MUSIC ->
                /\ YieldLoop(Append(cache, [frames |-> packet.frames,
                                            num_frames |-> packet.num_frames]))
                /\ UNCHANGED perr
    /\ UNCHANGED wvars
    /\ UNCHANGED <<playing, registered, unloads, notify_period, cleaned, opc,
                   bvars>>

\* Lines 218-219: nothing came within TIMEOUT seconds.
get_timeout ==
    /\ gpc = "get"
    /\ postbox = <<>>
    /\ perr' = TimedOut
    /\ gpc' = "failed"
    /\ UNCHANGED wvars
    /\ UNCHANGED <<postbox, playing, registered, unloads, notify_period,
                   frame_count, next_notify, notified, cache, emitted,
                   cleaned, opc,
                   bvars>>

\* The consumer asks for the next chunk: the generator goes on after its yield.
get_data_resume ==
    /\ gpc \in {"susp228", "susp238"}
    /\ IF gpc = "susp228" THEN YieldLoop(cache) ELSE Drain(cache)
    /\ UNCHANGED wvars
    /\ UNCHANGED <<postbox, playing, registered, unloads, notify_period, perr,
                   cleaned, opc,
                   bvars>>

\* The consumer gives the generator up at a yield (GeneratorExit).
get_data_close ==
    /\ gpc \in {"susp228", "susp238"}
    /\ gpc' = "closed"
    /\ UNCHANGED wvars
    /\ UNCHANGED <<postbox, playing, registered, unloads, notify_period,
                   frame_count, next_notify, notified, cache, emitted, perr,
                   cleaned, opc,
                   bvars>>

\* The generator's owner stops the Player once the generator is over.
owner_stop ==
    /\ gpc \in {"done", "failed", "closed"}
    /\ ~cleaned
    /\ opc = "idle"
    /\ IF stop_returns
       THEN cleaned' = TRUE /\ UNCHANGED opc
       ELSE opc' = "stopping" /\ UNCHANGED cleaned
    /\ UNCHANGED wvars
    /\ UNCHANGED <<postbox, playing, registered, unloads, notify_period,
                   frame_count, next_notify, notified, cache, gpc, emitted,
                   perr, bvars>>

\* The owner's stop() goes on after its test: lines 121-124.
owner_stop_act ==
    /\ opc = "stopping"
    /\ stop
    /\ cleaned' = TRUE
    /\ opc' = "idle"
    /\ UNCHANGED wvars
    /\ UNCHANGED <<postbox, notify_period, frame_count, next_notify, notified,
                   cache, gpc, emitted, perr, bvars>>

(***************************************************************************)
(* spotweb.py: the /play requests.                                         *)
(***************************************************************************)
Requests == {"r1", "r2"}

\* The track ids a request names, and _expand_uri of each.
TrackIds == {"4qWz", "spotify:track:4qWz", "bend"}
expand_uri(id) ==
    CASE id = "4qWz" -> "spotify:track:4qWz"
      [] id = "spotify:track:4qWz" -> id
      [] id = "bend" -> "spotify:track:bend"

\* 'end' in key: the substring test of make_receipt, line 276.
ContainsEnd(key) == key = "spotify:track:bend"

\* request.query.format
Formats == {"", "flac", "raw", "mp3"}

receiptPeriod == 12 * 3600
BytesPerSecond == 2 * 2 * 44100

\* An attribute a receipt does not have.
Absent == -1

NoRcpt ==
    [start |-> Absent, format |-> "", pcm |-> Absent, flac |-> Absent,
     streamed |-> FALSE, failed |-> FALSE, error |-> <<>>, end |-> Absent]

\* str(e) of a PlayError, of another exception.
StrPlayError(message) == <<"PlayError", message>>
StrException(message) == <<message>>
LoadFailed == "LibError: track not playable"
BrokenPipe == "BrokenPipeError"

\* The k-th chunk Player.get_data yields; what the encoder makes of a byte.
Chunk(k) == <<k>>
Encode(bytes) == [i \in 1..Len(bytes) |-> bytes[i] + 10]

WebInit(formats) ==
    /\ status = [streaming |-> FALSE, uri |-> "", pos |-> 0]
    /\ receipts = <<>>
    /\ now = 0
    /\ may = formats
    /\ req = [r \in Requests |->
                [pc |-> "new", uri |-> "", fmt |-> "", resp |-> "",
                 out |-> <<>>, abandoned |-> FALSE]]
    /\ rcpt = [r \in Requests |-> NoRcpt]
    /\ pl = [r \in Requests |->
                [created |-> FALSE, playing |-> FALSE, gen |-> "none",
                 pulled |-> 0, outcome |-> ""]]
    /\ fl = [r \in Requests |->
                [feeder |-> "none", held |-> <<>>, ferr |-> "",
                 stdin |-> <<>>, stdin_open |-> FALSE,
                 stdout |-> <<>>, stdout_open |-> FALSE, enc |-> "none"]]

WebIdle == WebInit([r \in Requests |-> {}])

(***************************************************************************)
(* make_receipt.  iter(receipts) yields the keys, so first_rcpt is the     *)
(* oldest key, a string: the loop ends at once unless that key contains    *)
(* 'end', and then first_rcpt.end raises AttributeError.                   *)
(***************************************************************************)
RECURSIVE Without(_, _)
WithoutNothing(ledger, code) == ledger

\* Lines 269-270: del receipts[code], if it is there.
Without(ledger, code) ==
    IF ledger = <<>> THEN <<>>
    ELSE IF Head(ledger)[1] = code THEN Without(Tail(ledger), code)
    ELSE <<Head(ledger)>> \o Without(Tail(ledger), code)

SweepRaises(ledger) == ledger # <<>> /\ ContainsEnd(ledger[1][1])

make_receipt_raises(ledger, code) == SweepRaises(Without(ledger, code))

make_receipt(ledger, code, r) ==
    IF make_receipt_raises(ledger, code)
    THEN Without(ledger, code)
    ELSE Append(Without(ledger, code), <<code, r>>)

(***************************************************************************)
(* play_track, lines 81-82: the test of status.streaming.                  *)
(***************************************************************************)
NeverBusy(st) == FALSE

Busy(st) == st.streaming

play_check(r) ==
    /\ req[r].pc = "new"
    /\ \E id \in TrackIds, f \in may[r] :
         req' = [req EXCEPT ![r].uri = expand_uri(id),
                            ![r].fmt = IF f = "" THEN "flac" ELSE f,
                            ![r].pc = IF Busy(status) THEN "rejected" ELSE "admitted",
                            ![r].resp = IF Busy(status) THEN "403" ELSE ""]
    /\ UNCHANGED <<status, receipts, now, may, rcpt, pl, fl>>
    /\ UNCHANGED <<pvars, bvars>>

(***************************************************************************)
(* play_track, lines 83-94: the receipt, the format.                       *)
(***************************************************************************)
play_receipt(r) ==
    /\ req[r].pc = "admitted"
    /\ receipts' = make_receipt(receipts, req[r].uri, r)
    /\ IF make_receipt_raises(receipts, req[r].uri)
       THEN /\ req' = [req EXCEPT ![r].pc = "failed", ![r].resp = "500"]
            /\ UNCHANGED rcpt
       ELSE IF req[r].fmt \in {"flac", "raw"}
       THEN /\ rcpt' = [rcpt EXCEPT ![r] = [NoRcpt EXCEPT !.start = now,
                                                         !.format = req[r].fmt]]
            /\ req' = [req EXCEPT ![r].pc = "start"]
       ELSE /\ rcpt' = [rcpt EXCEPT ![r] = [NoRcpt EXCEPT !.start = now]]
            /\ req' = [req EXCEPT ![r].pc = "rejected", ![r].resp = "415"]
    /\ UNCHANGED <<status, now, may, pl, fl>>
    /\ UNCHANGED <<pvars, bvars>>

(***************************************************************************)
(* What the thread driving the get_track_pcm generator does with what the  *)
(* generator hands it: play_track's yield from (raw), feed_child (flac).   *)
(***************************************************************************)
\* The generator yields a chunk.
DriverGets(r, c) ==
    IF req[r].fmt = "raw"
    THEN /\ req' = [req EXCEPT ![r].out = Append(@, c), ![r].pc = "raw_susp"]
         /\ UNCHANGED fl
    ELSE /\ fl' = [fl EXCEPT ![r].held = c, ![r].feeder = "write"]
         /\ UNCHANGED req

DriverSeesReturnNoClose(r) ==
    IF req[r].fmt = "raw"
    THEN /\ req' = [req EXCEPT ![r].pc = "done", ![r].resp = "eos"]
         /\ UNCHANGED fl
    ELSE /\ fl' = [fl EXCEPT ![r].feeder = "dead"]
         /\ UNCHANGED req

\* The generator returns: line 99 of play_track; feed_child's finally.
DriverSeesReturn(r) ==
    IF req[r].fmt = "raw"
    THEN /\ req' = [req EXCEPT ![r].pc = "done", ![r].resp = "eos"]
         /\ UNCHANGED fl
    ELSE /\ fl' = [fl EXCEPT ![r].feeder = "dead", ![r].stdin_open = FALSE]
         /\ UNCHANGED req

\* The generator raises: the request fails; feed_child's except and finally.
DriverSeesRaise(r, code) ==
    IF req[r].fmt = "raw"
    THEN /\ req' = [req EXCEPT ![r].pc = IF code = "403" THEN "rejected" ELSE "failed",
                               ![r].resp = code]
         /\ UNCHANGED fl
    ELSE /\ fl' = [fl EXCEPT ![r].feeder = "dead", ![r].ferr = code,
                             ![r].stdin_open = FALSE]
         /\ UNCHANGED req

(***************************************************************************)
(* get_track_pcm.                                                          *)
(***************************************************************************)
\* Lines 146-150, the finally: stop the Player, end time, status.
Finally(r, rc) ==
    /\ rcpt' = [rcpt EXCEPT ![r] = [rc EXCEPT !.end = now]]
    /\ status' = [status EXCEPT !.streaming = FALSE]

\* Lines 117-130 and the start of Player.get_data: the first next().
pcm_start(r) ==
    /\ pl[r].gen = "none"
    /\ \/ req[r].fmt = "raw" /\ req[r].pc = "start"
       \/ req[r].fmt = "flac" /\ fl[r].feeder = "start"
    /\ \E available \in BOOLEAN :
         IF ~available
         THEN /\ pl' = [pl EXCEPT ![r].created = TRUE, ![r].gen = "raised"]
              /\ DriverSeesRaise(r, "403")
              /\ UNCHANGED <<status, rcpt>>
         ELSE /\ pl' = [pl EXCEPT ![r].created = TRUE, ![r].playing = TRUE,
                                  ![r].gen = "pulling"]
              /\ status' = [streaming |-> TRUE, uri |-> req[r].uri, pos |-> 0]
              /\ rcpt' = [rcpt EXCEPT ![r].pcm = 0]
              /\ IF req[r].fmt = "raw"
                 THEN req' = [req EXCEPT ![r].pc = "raw_wait"]
                 ELSE UNCHANGED req
              /\ IF req[r].fmt = "flac"
                 THEN fl' = [fl EXCEPT ![r].feeder = "pull"]
                 ELSE UNCHANGED fl
    /\ UNCHANGED <<receipts, now, may>>
    /\ UNCHANGED <<pvars, bvars>>

\* Lines 132-135: Player.get_data yields the next chunk.
OnChunk(rc, c) == [rc EXCEPT !.pcm = @ + Len(c)]

player_chunk(r) ==
    /\ pl[r].gen = "pulling"
    /\ pl[r].pulled < MaxChunks
    /\ LET c == Chunk(pl[r].pulled + 1) IN
         /\ rcpt' = [rcpt EXCEPT ![r] = OnChunk(rcpt[r], c)]
         /\ status' = [status EXCEPT !.pos = OnChunk(rcpt[r], c).pcm \div BytesPerSecond]
         /\ pl' = [pl EXCEPT ![r].pulled = @ + 1, ![r].gen = "susp"]
         /\ DriverGets(r, c)
    /\ UNCHANGED <<receipts, now, may>>
    /\ UNCHANGED <<pvars, bvars>>

\* Line 136, then the finally: Player.get_data ends.
OnEnd(rc) == [rc EXCEPT !.streamed = TRUE]

player_end(r) ==
    /\ pl[r].gen = "pulling"
    /\ Finally(r, OnEnd(rcpt[r]))
    /\ pl' = [pl EXCEPT ![r].playing = FALSE, ![r].gen = "done", ![r].outcome = "end"]
    /\ DriverSeesReturn(r)
    /\ UNCHANGED <<receipts, now, may>>
    /\ UNCHANGED <<pvars, bvars>>

\* Lines 137-140, then the finally: Player.get_data raises PlayError, which
\* is not raised again.
PlayErrors == {TimedOut, PlayTokenLost} \cup ErrorTypes

OnPlayErrorNoText(rc, message) == [rc EXCEPT !.failed = TRUE]

OnPlayError(rc, message) ==
    [rc EXCEPT !.failed = TRUE, !.error = StrPlayError(message)]

player_error(r) ==
    /\ pl[r].gen = "pulling"
    /\ \E m \in PlayErrors :
         /\ Finally(r, OnPlayError(rcpt[r], m))
         /\ pl' = [pl EXCEPT ![r].playing = FALSE, ![r].gen = "done", ![r].outcome = m]
    /\ DriverSeesReturn(r)
    /\ UNCHANGED <<receipts, now, may>>
    /\ UNCHANGED <<pvars, bvars>>

\* Lines 141-145, then the finally: another exception (the backend refuses
\* to load the track in Player._start), raised again.
OnException(rc, message) ==
    [rc EXCEPT !.failed = TRUE, !.error = StrException(message)]

player_fault(r) ==
    /\ pl[r].gen = "pulling"
    /\ pl[r].pulled = 0
    /\ Finally(r, OnException(rcpt[r], LoadFailed))
    /\ pl' = [pl EXCEPT ![r].playing = FALSE, ![r].gen = "raised",
                        ![r].outcome = LoadFailed]
    /\ DriverSeesRaise(r, "500")
    /\ UNCHANGED <<receipts, now, may>>
    /\ UNCHANGED <<pvars, bvars>>

\* The generator is closed at its yield (GeneratorExit, which no except
\* clause of get_track_pcm catches): the finally alone runs.
OnClose(rc) == rc

CloseSource(r) ==
    /\ Finally(r, OnClose(rcpt[r]))
    /\ pl' = [pl EXCEPT ![r].playing = FALSE, ![r].gen = "closed"]

(***************************************************************************)
(* The HTTP client of a raw stream.                                        *)
(***************************************************************************)
\* It asks for the next chunk.
raw_next(r) ==
    /\ req[r].pc = "raw_susp"
    /\ req' = [req EXCEPT ![r].pc = "raw_wait"]
    /\ pl' = [pl EXCEPT ![r].gen = "pulling"]
    /\ UNCHANGED <<status, receipts, now, may, rcpt, fl>>
    /\ UNCHANGED <<pvars, bvars>>

\* It goes away: play_track is closed, and get_track_pcm with it.
raw_abandon(r) ==
    /\ req[r].pc = "raw_susp"
    /\ req' = [req EXCEPT ![r].pc = "closed", ![r].resp = "closed",
                          ![r].abandoned = TRUE]
    /\ CloseSource(r)
    /\ UNCHANGED <<receipts, now, may, fl>>
    /\ UNCHANGED <<pvars, bvars>>

(***************************************************************************)
(* flac_encode: the reader.                                                *)
(***************************************************************************)
\* Lines 153-165: the encoder process, the feeder thread.
flac_start(r) ==
    /\ req[r].pc = "start"
    /\ req[r].fmt = "flac"
    /\ rcpt' = [rcpt EXCEPT ![r].flac = 0]
    /\ fl' = [fl EXCEPT ![r].enc = "running", ![r].stdin_open = TRUE,
                        ![r].stdout_open = TRUE, ![r].feeder = "start"]
    /\ req' = [req EXCEPT ![r].pc = "flac_read"]
    /\ UNCHANGED <<status, receipts, now, may, pl>>
    /\ UNCHANGED <<pvars, bvars>>

\* flac.stdout.read(blksize): blksize bytes, or what is left at EOF.
CanRead(f) == Len(f.stdout) >= blksize \/ f.enc = "exited"
ReadLen(f) == IF Len(f.stdout) >= blksize THEN blksize ELSE Len(f.stdout)

\* Lines 167-170: a block is read and yielded.
flac_read(r) ==
    /\ req[r].pc = "flac_read"
    /\ CanRead(fl[r])
    /\ ReadLen(fl[r]) > 0
    /\ LET data == SubSeq(fl[r].stdout, 1, ReadLen(fl[r])) IN
         /\ rcpt' = [rcpt EXCEPT ![r].flac = @ + Len(data)]
         /\ req' = [req EXCEPT ![r].out = Append(@, data), ![r].pc = "flac_susp"]
         /\ fl' = [fl EXCEPT ![r].stdout =
                      SubSeq(@, ReadLen(fl[r]) + 1, Len(@))]
    /\ UNCHANGED <<status, receipts, now, may, pl>>
    /\ UNCHANGED <<pvars, bvars>>

\* Lines 167-171: EOF; the loop is left and flac.stdout closed.
flac_eof(r) ==
    /\ req[r].pc = "flac_read"
    /\ CanRead(fl[r])
    /\ ReadLen(fl[r]) = 0
    /\ req' = [req EXCEPT ![r].pc = "flac_join"]
    /\ fl' = [fl EXCEPT ![r].stdout_open = FALSE]
    /\ UNCHANGED <<status, receipts, now, may, rcpt, pl>>
    /\ UNCHANGED <<pvars, bvars>>

\* Lines 172-174: feeder.join(), flac.wait(); then line 99 of play_track.
flac_join(r) ==
    /\ req[r].pc = "flac_join"
    /\ fl[r].feeder = "dead"
    /\ fl[r].enc = "exited"
    /\ req' = [req EXCEPT ![r].pc = "done", ![r].resp = "eos"]
    /\ UNCHANGED <<status, receipts, now, may, rcpt, pl, fl>>
    /\ UNCHANGED <<pvars, bvars>>

\* The HTTP client asks for the next block.
flac_next(r) ==
    /\ req[r].pc = "flac_susp"
    /\ req' = [req EXCEPT ![r].pc = "flac_read"]
    /\ UNCHANGED <<status, receipts, now, may, rcpt, pl, fl>>
    /\ UNCHANGED <<pvars, bvars>>

\* The HTTP client goes away: play_track is closed and flac_encode with it,
\* at line 170; GeneratorExit is no Exception, and flac_encode has no
\* finally.  The Popen object is dropped with the generator's frame: its
\* stdout stays open while the interpreter keeps the object of a running
\* child, or is closed with it.
flac_abandon(r) ==
    /\ req[r].pc = "flac_susp"
    /\ req' = [req EXCEPT ![r].pc = "closed", ![r].resp = "closed",
                          ![r].abandoned = TRUE]
    /\ \E kept \in BOOLEAN : fl' = [fl EXCEPT ![r].stdout_open = kept]
    /\ UNCHANGED <<status, receipts, now, may, rcpt, pl>>
    /\ UNCHANGED <<pvars, bvars>>

(***************************************************************************)
(* feed_child: the feeder thread.                                          *)
(***************************************************************************)
\* Line 183: child.write(data) once the pipe has room, then the next
\* next(source).
feed_write(r) ==
    /\ fl[r].feeder = "write"
    /\ fl[r].enc = "running"
    /\ Len(fl[r].stdin) + Len(fl[r].held) <= PipeCap
    /\ fl' = [fl EXCEPT ![r].stdin = @ \o fl[r].held, ![r].held = <<>>,
                        ![r].feeder = "pull"]
    /\ pl' = [pl EXCEPT ![r].gen = "pulling"]
    /\ UNCHANGED <<status, receipts, now, may, req, rcpt>>
    /\ UNCHANGED <<pvars, bvars>>

\* Lines 183-188: the write fails, the encoder being gone; the except
\* clause, the finally.  The source stays where it is, at its yield.
feed_write_fails(r) ==
    /\ fl[r].feeder = "write"
    /\ fl[r].enc = "exited"
    /\ fl' = [fl EXCEPT ![r].held = <<>>, ![r].feeder = "dead",
                        ![r].ferr = BrokenPipe, ![r].stdin_open = FALSE]
    /\ UNCHANGED <<status, receipts, now, may, req, rcpt, pl>>
    /\ UNCHANGED <<pvars, bvars>>

\* The get_track_pcm generator, left at its yield by a feeder that is gone,
\* is closed when the last reference to it goes, with flac_encode's frame.
source_finalize(r) ==
    /\ pl[r].gen = "susp"
    /\ fl[r].feeder = "dead"
    /\ req[r].pc \in {"done", "closed"}
    /\ CloseSource(r)
    /\ UNCHANGED <<receipts, now, may, req, fl>>
    /\ UNCHANGED <<pvars, bvars>>

(***************************************************************************)
(* The encoder process.                                                    *)
(***************************************************************************)
\* It reads a byte of its input and writes what it makes of it.
enc_step(r) ==
    /\ fl[r].enc = "running"
    /\ fl[r].stdin # <<>>
    /\ fl[r].stdout_open
    /\ Len(fl[r].stdout) + 1 <= PipeCap
    /\ fl' = [fl EXCEPT ![r].stdin = Tail(@),
                        ![r].stdout = @ \o Encode(<<Head(fl[r].stdin)>>)]
    /\ UNCHANGED <<status, receipts, now, may, req, rcpt, pl>>
    /\ UNCHANGED <<pvars, bvars>>

\* It exits: at the end of its input, or writing to a closed stdout.
enc_exit(r) ==
    /\ fl[r].enc = "running"
    /\ \/ fl[r].stdin = <<>> /\ ~fl[r].stdin_open
       \/ fl[r].stdin # <<>> /\ ~fl[r].stdout_open
    /\ fl' = [fl EXCEPT ![r].enc = "exited", ![r].stdin = <<>>]
    /\ UNCHANGED <<status, receipts, now, may, req, rcpt, pl>>
    /\ UNCHANGED <<pvars, bvars>>

\* It dies of itself.
enc_die(r) ==
    /\ fl[r].enc = "running"
    /\ fl[r].feeder # "dead"
    /\ fl' = [fl EXCEPT ![r].enc = "exited", ![r].stdin = <<>>]
    /\ UNCHANGED <<status, receipts, now, may, req, rcpt, pl>>
    /\ UNCHANGED <<pvars, bvars>>

(***************************************************************************)
(* The specifications.                                                     *)
(***************************************************************************)
Init == PlayerInit /\ WebIdle

Next ==
    \/ on_music_check
    \/ on_music_put
    \/ on_end_of_track
    \/ on_error
    \/ on_play_token_lost
    \/ callback_stop
    \/ terminal_put
    \/ get_data_start
    \/ start_playing
    \/ get_packet
    \/ get_timeout
    \/ get_data_resume
    \/ get_data_close
    \/ owner_stop
    \/ owner_stop_act

Spec == Init /\ [][Next]_vars

\* No Player of its own: the requests' Players are in pl.
PlayerIdle == PlayerInit /\ notify_period = 0

Progress(r) ==
    \/ play_check(r)
    \/ play_receipt(r)
    \/ pcm_start(r)
    \/ player_chunk(r)
    \/ player_end(r)
    \/ player_error(r)
    \/ player_fault(r)
    \/ raw_next(r)
    \/ raw_abandon(r)
    \/ flac_start(r)
    \/ flac_read(r)
    \/ flac_eof(r)
    \/ flac_join(r)
    \/ flac_next(r)
    \/ flac_abandon(r)
    \/ feed_write(r)
    \/ feed_write_fails(r)
    \/ source_finalize(r)
    \/ enc_step(r)
    \/ enc_exit(r)

NextWeb ==
    \/ \E r \in Requests : Progress(r)
    \/ \E r \in Requests : enc_die(r)

\* Two requests, at most one of them for flac.
InitWeb ==
    /\ PlayerIdle
    /\ WebInit([r \in Requests |-> IF r = "r1" THEN Formats ELSE {"raw", "mp3"}])

SpecWeb == InitWeb /\ [][NextWeb]_vars

\* One request.
InitOne ==
    /\ PlayerIdle
    /\ WebInit([r \in Requests |-> IF r = "r1" THEN Formats ELSE {}])

SpecOne == InitOne /\ [][NextWeb]_vars

(***************************************************************************)
(* One request made of a server that has run for some time: the ledger     *)
(* holds receipts of earlier requests, oldest first.  Each is the receipt  *)
(* of a request refused with 415 (no end), or of a stream that ended       *)
(* receiptPeriod seconds ago or less than that.                            *)
(***************************************************************************)
Past == {"p1", "p2", "p3"}
PastKey ==
    [p \in Past |-> CASE p = "p1" -> "spotify:track:4qWz"
                      [] p = "p2" -> "spotify:track:bend"
                      [] p = "p3" -> "spotify:track:2aBc"]
LedgerNow == receiptPeriod + 1

\* The ledgers: every order of every set of earlier receipts.
Ledgers ==
    {l \in UNION {[1..n -> Past] : n \in 0..Cardinality(Past)} :
        \A i, j \in 1..Len(l) : i # j => l[i] # l[j]}

PastRcpt(e) ==
    IF e = Absent THEN [NoRcpt EXCEPT !.start = 0]
    ELSE [NoRcpt EXCEPT !.start = 0, !.format = "raw", !.pcm = 1,
                        !.streamed = TRUE, !.end = e]

InitLedger ==
    /\ PlayerIdle
    /\ status = [streaming |-> FALSE, uri |-> "", pos |-> 0]
    /\ now = LedgerNow
    /\ may = [r \in Requests |-> IF r = "r1" THEN Formats ELSE {}]
    /\ req = [r \in Requests |->
                [pc |-> "new", uri |-> "", fmt |-> "", resp |-> "",
                 out |-> <<>>, abandoned |-> FALSE]]
    /\ pl = [r \in Requests |->
                [created |-> FALSE, playing |-> FALSE, gen |-> "none",
                 pulled |-> 0, outcome |-> ""]]
    /\ fl = [r \in Requests |->
                [feeder |-> "none", held |-> <<>>, ferr |-> "",
                 stdin |-> <<>>, stdin_open |-> FALSE,
                 stdout |-> <<>>, stdout_open |-> FALSE, enc |-> "none"]]
    /\ \E l \in Ledgers :
         /\ receipts = [i \in 1..Len(l) |-> <<PastKey[l[i]], l[i]>>]
         /\ \E e \in [Past -> {Absent, now - receiptPeriod, now - receiptPeriod + 1}] :
              rcpt = [x \in Requests \cup Past |->
                        IF x \in Past /\ (\E i \in 1..Len(l) : l[i] = x)
                        THEN PastRcpt(e[x])
                        ELSE NoRcpt]

SpecLedger == InitLedger /\ [][NextWeb]_vars

\* What can run does run; the encoder does not die of itself unless it does.
FairOne == SpecOne /\ WF_vars(\E r \in Requests : Progress(r))

(***************************************************************************)
(* The claims about the Player, under Spec.                                *)
(***************************************************************************)

\* C1: whatever the interleaving of the backend's calls and the consumer's
\* pulls, the chunks yielded so far are the first payloads on_music
\* accepted, in the order it accepted them; and once get_data_ex has ended
\* after End, with a last packet that is not the silence block, the chunks
\* are all the payloads (and so are their concatenations): none lost,
\* duplicated or reordered.
C1_ChunksArePayloadsInOrder ==
    /\ IsPrefix(emitted, FramesOf(accepted))
    /\ (gpc = "done" /\ (accepted = <<>> \/ Last(accepted).frames # BLANK_500MS))
          => /\ emitted = FramesOf(accepted)
             /\ Flatten(emitted) = Flatten(FramesOf(accepted))

C1_Witness ==
    /\ gpc = "done"
    /\ Len(accepted) = MaxPackets
    /\ rejected >= 1
    /\ accepted[1].frames = BLANK_500MS
    /\ Last(accepted).frames # BLANK_500MS
    /\ Len(emitted) = MaxPackets

RECURSIVE StripTrailingSilence(_)
StripTrailingSilence(ps) ==
    IF ps # <<>> /\ Last(ps).frames = BLANK_500MS
    THEN StripTrailingSilence(Front(ps))
    ELSE ps

\* C2, as claimed: when get_data_ex has ended after End, the chunks are the
\* payloads of all packets but the K silence blocks that end the track,
\* for every K.
C2_OmitsWholeTrailingRun ==
    gpc = "done" => emitted = FramesOf(StripTrailingSilence(accepted))

\* C2, amended: when get_data_ex has ended after End, the chunks are the
\* payloads of all packets but the last one if that is the silence block;
\* silence blocks before the last packet are yielded, also those of a
\* trailing run.
C2_OmitsLastPacketIfSilence ==
    gpc = "done" =>
        emitted = FramesOf(IF accepted # <<>> /\ Last(accepted).frames = BLANK_500MS
                           THEN Front(accepted)
                           ELSE accepted)

C2_Witness ==
    /\ gpc = "done"
    /\ Len(accepted) = 3
    /\ accepted[1].frames # BLANK_500MS
    /\ accepted[2].frames = BLANK_500MS
    /\ accepted[3].frames = BLANK_500MS
    /\ emitted = FramesOf(Front(accepted))

Streaming(r) == pl[r].gen \in {"pulling", "susp"}

\* C4: of the /play requests handled on their threads, at most one at a
\* time has set status.streaming and is streaming.
C4_AtMostOneStream ==
    Cardinality({r \in Requests : Streaming(r)}) <= 1

\* C5: a request that makes its test of status.streaming while it is true
\* is rejected with 403, and that step changes neither status nor any
\* Player, receipt or encoder; a request so rejected has no audio bytes, no
\* Player and no receipt, and stays rejected.
C5_BusyIsRejected ==
    /\ [][\A r \in Requests :
            (req[r].pc = "new" /\ req'[r].pc # "new" /\ status.streaming) =>
                /\ req'[r].pc = "rejected"
                /\ req'[r].resp = "403"
                /\ status' = status
                /\ pl' = pl
                /\ receipts' = receipts
                /\ rcpt' = rcpt
                /\ fl' = fl]_vars
    /\ [](\A r \in Requests :
            (req[r].resp = "403" /\ ~pl[r].created) =>
                /\ req[r].pc = "rejected"
                /\ req[r].out = <<>>
                /\ rcpt[r] = NoRcpt
                /\ fl[r].enc = "none")

C5_Witness ==
    /\ req["r2"].resp = "403"
    /\ ~pl["r2"].created
    /\ status.streaming
    /\ Streaming("r1")
    /\ req["r1"].out # <<>>

\* C6: every stream that has set status.streaming reaches a state where
\* status.streaming is false and its Player is stopped.
C6_EveryStreamEnds ==
    \A r \in Requests :
        [](Streaming(r) => <>(~status.streaming /\ ~pl[r].playing))

\* Where a flac stream stays for ever: the client gone, nobody reading the
\* encoder's output, both pipes full, the feeder in child.write.
C6_Witness ==
    /\ req["r1"].abandoned
    /\ req["r1"].fmt = "flac"
    /\ fl["r1"].feeder = "write"
    /\ Len(fl["r1"].stdin) + Len(fl["r1"].held) > PipeCap
    /\ Len(fl["r1"].stdout) = PipeCap
    /\ fl["r1"].stdout_open
    /\ fl["r1"].enc = "running"
    /\ status.streaming
    /\ pl["r1"].playing
    /\ ~ENABLED (\E r \in Requests : Progress(r))

\* C7: when Player.get_data has ended, the receipt is marked streamed, has
\* an end time and is not marked failed; when it has raised PlayError, the
\* receipt is marked failed, has str() of that error as its error and an
\* end time, and is not marked streamed.
C7_ReceiptOutcome ==
    \A r \in Requests :
        /\ pl[r].outcome = "end" =>
              /\ rcpt[r].streamed
              /\ rcpt[r].end # Absent
              /\ ~rcpt[r].failed
              /\ rcpt[r].error = <<>>
        /\ pl[r].outcome \in {TimedOut, PlayTokenLost} \cup ErrorTypes =>
              /\ rcpt[r].failed
              /\ rcpt[r].error = <<"PlayError", pl[r].outcome>>
              /\ rcpt[r].end # Absent
              /\ ~rcpt[r].streamed

C7_Witness ==
    /\ pl["r1"].outcome = TimedOut
    /\ req["r1"].fmt = "flac"
    /\ rcpt["r1"].failed
    /\ rcpt["r1"].pcm > 0
    /\ pl["r2"].outcome = "end"
    /\ rcpt["r2"].streamed

\* C8: once a flac stream whose feeder failed on a write to the encoder is
\* over (the request finished, the source generator no longer waiting),
\* its receipt is marked failed, with an error and an end time.
C8_EncoderFailureMarksFailed ==
    \A r \in Requests :
        (/\ fl[r].ferr = BrokenPipe
         /\ req[r].pc \in {"done", "closed"}
         /\ ~Streaming(r)) =>
            /\ rcpt[r].failed
            /\ rcpt[r].error # <<>>
            /\ rcpt[r].end # Absent
            /\ ~rcpt[r].streamed

\* C9: once the stream of a request whose HTTP client went away is over,
\* its Player is stopped and its receipt marked failed, with an end time.
C9_AbandonMarksFailed ==
    \A r \in Requests :
        (req[r].abandoned /\ ~Streaming(r)) =>
            /\ ~pl[r].playing
            /\ rcpt[r].failed
            /\ rcpt[r].end # Absent

\* C10: a request whose pull sequence raised PlayError, or whose feeder
\* failed on a write, does not end with a normal end of sequence.
C10_FailureEndsWithError ==
    \A r \in Requests :
        (\/ pl[r].outcome \in {TimedOut, PlayTokenLost} \cup ErrorTypes
         \/ fl[r].ferr = BrokenPipe) =>
            req[r].resp # "eos"

(***************************************************************************)
(* More claims about the Player, under Spec.                               *)
(***************************************************************************)
RECURSIVE FrameTotal(_)
FrameTotal(chunks) ==
    IF chunks = <<>> THEN 0 ELSE Len(Head(chunks)) + FrameTotal(Tail(chunks))

\* C11: with a callback registered for period P >= 1, the arguments the
\* callback has been called with are P, 2P, ..., kP in this order, where k
\* is the whole part of F / P and F the total of the frames yielded so far:
\* none skipped, none early, none twice, whatever the packets' sizes.
C11_NotifyThresholds ==
    notify_period >= 1 =>
        /\ frame_count = FrameTotal(emitted)
        /\ notified = [i \in 1..(frame_count \div notify_period) |-> i * notify_period]

\* One packet of two frames has made the callback fire twice; then one more.
C11_Witness ==
    /\ notify_period = 1
    /\ Len(emitted) = 2
    /\ Len(emitted[1]) = 2
    /\ notified = <<1, 2, 3>>

\* C15: of the entries ever put on a Player's queue, at most one is a
\* terminal entry (END_OF_TRACK or ERROR), and it is the last one.
C15_OneTerminalLast ==
    \A i \in 1..(Len(posted) - 1) : posted[i] = MUSIC

\* C16: however the stop() calls of the callback thread and of the
\* generator's owner interleave, the backend is paused and unloaded and the
\* callbacks deregistered at most once for the one start of a Player, and
\* not at all before it has started.
C16_StopsOncePerStart ==
    /\ unloads <= 1
    /\ gpc \in {"new", "starting"} => unloads = 0

MusicCount(q) == Cardinality({i \in 1..Len(q) : q[i].cmd = MUSIC})
TerminalCount(q) == Cardinality({i \in 1..Len(q) : q[i].cmd # MUSIC})

\* The packets get_data_ex has taken from the queue.
Dequeued == SubSeq(accepted, 1, Len(accepted) - MusicCount(postbox))

\* C19: the get that finds an ERROR entry ends get_data_ex with a PlayError
\* of that entry's text and yields nothing; from then on the chunks yielded
\* are the payloads of the packets taken from the queue before the error
\* but the last of them, which the cache held.
C19_ErrorDiscardsCache ==
    /\ [][(gpc = "get" /\ gpc' # "get" /\ postbox # <<>> /\ Head(postbox).cmd = ERROR) =>
             /\ gpc' = "failed"
             /\ perr' = Head(postbox).error
             /\ emitted' = emitted
             /\ notified' = notified]_vars
    /\ []((gpc = "failed" /\ perr # TimedOut) =>
             emitted = FramesOf(Front(Dequeued)))

C19_Witness ==
    /\ gpc = "failed"
    /\ perr = PlayTokenLost
    /\ Len(Dequeued) = 2
    /\ Len(emitted) = 1
    /\ cache # <<>>

\* C20: the queue never holds more than maxqsize + 1 music entries, nor
\* more than one terminal entry, nor more than maxqsize + 2 entries.
C20_QueueBound ==
    /\ MusicCount(postbox) <= maxqsize + 1
    /\ TerminalCount(postbox) <= 1
    /\ Len(postbox) <= maxqsize + 2

(***************************************************************************)
(* The claims about the receipt ledger, under SpecLedger.                  *)
(***************************************************************************)
Count(ledger, key) == Cardinality({i \in 1..Len(ledger) : ledger[i][1] = key})

\* C12: when make_receipt(X) returns to a request, the ledger holds exactly
\* one receipt for X, it is the request's new receipt, it is the newest
\* entry, and it has no field but its start time (and the format play_track
\* writes at once), whatever receipt the ledger held for X before.
C12_MakeReceiptReplaces ==
    [][\A r \in Requests :
          (rcpt[r].start = Absent /\ rcpt'[r].start # Absent) =>
              /\ Count(receipts', req[r].uri) = 1
              /\ Last(receipts') = <<req[r].uri, r>>
              /\ rcpt'[r] = [NoRcpt EXCEPT !.start = now,
                                           !.format = IF req[r].fmt \in {"flac", "raw"}
                                                      THEN req[r].fmt ELSE ""]
              /\ Len(receipts') = Len(receipts) + 1 - Count(receipts, req[r].uri)
      ]_vars

\* An unfinished receipt for X that is not the oldest has been replaced.
C12_Witness ==
    /\ rcpt["r1"].start = now
    /\ Len(receipts) = 3
    /\ Last(receipts) = <<req["r1"].uri, "r1">>
    /\ \E p \in Past :
         /\ PastKey[p] = req["r1"].uri
         /\ rcpt[p].start # Absent
         /\ rcpt[p].end = Absent
         /\ \A i \in 1..Len(receipts) : receipts[i][2] # p


\* A receipt that is finished and older than the retention window.
Expired(entry) ==
    /\ rcpt[entry[2]].end # Absent
    /\ rcpt[entry[2]].end <= now - receiptPeriod

\* C13: once make_receipt has returned to the request, the oldest receipt
\* of the ledger other than the new one is not both finished and older
\* than the retention window: the sweep has removed every such receipt
\* that came before the first unfinished or recent one.
C13_SweepEvictsExpired ==
    \A r \in Requests :
        (rcpt[r].start # Absent /\ Len(receipts) >= 2) => ~Expired(receipts[1])


(***************************************************************************)
(* More claims about the /play requests.                                   *)
(***************************************************************************)
\* get_track_pcm found the track unavailable and aborted with 403.
Unavailable(r) == pl[r].gen = "raised" /\ pl[r].outcome = ""

\* C14: a request refused for a busy server, an unsupported format or an
\* unavailable track has no receipt in the ledger, no Player playing, no
\* encoder process and no feeder thread, and its caller gets the refusal.
C14_RejectionAllocatesNothing ==
    \A r \in Requests :
        (req[r].resp \in {"403", "415"} \/ Unavailable(r)) =>
            /\ rcpt[r] = NoRcpt
            /\ \A i \in 1..Len(receipts) : receipts[i][2] # r
            /\ ~pl[r].playing
            /\ fl[r].enc = "none"
            /\ fl[r].feeder = "none"
            /\ req[r].resp \in {"403", "415"}


\* The reader of flac_encode has left its read loop.
ReaderLeft(r) == req[r].pc \in {"flac_join", "done", "closed"}

\* C17: a feeder that has stopped has closed the encoder's input, and from
\* then on the reader comes to leave its read loop.
C17_ReaderLeavesLoop ==
    \A r \in Requests :
        /\ [](fl[r].feeder = "dead" => ~fl[r].stdin_open)
        /\ [](fl[r].feeder = "dead" => <>ReaderLeft(r))

\* The feeder failed on a write; the reader has seen EOF and gone on.
C17_Witness ==
    /\ fl["r1"].ferr = BrokenPipe
    /\ fl["r1"].feeder = "dead"
    /\ req["r1"].pc = "flac_join"
    /\ req["r1"].out # <<>>
    /\ ~req["r1"].abandoned

\* C18: once flac_encode is over for its caller, the feeder thread has
\* ended and the encoder process has exited.
C18_NothingLeftRunning ==
    \A r \in Requests :
        (req[r].fmt = "flac" /\ req[r].pc \in {"done", "closed"}) =>
            /\ fl[r].feeder = "dead"
            /\ fl[r].enc = "exited"

=============================================================================
